---- MODULE Spec2Model ----
(***************************************************************************)
(* A model of src/src/App.tsx, the Curacao interactive map component:      *)
(* the colour hash, the Wikipedia info fetch, the search filter, the       *)
(* church-marker overlay and the selection / hover / popup state machine   *)
(* built on the Leaflet layer that React re-creates on every selection     *)
(* change.                                                                 *)
(*                                                                         *)
(* Strings are sequences of one-character strings, so that case folding,   *)
(* trimming and substring search are computed and not assumed.             *)
(***************************************************************************)
EXTENDS Integers, Sequences, FiniteSets, TLC

VARIABLES
  \* ---- getAreaColor, run one loop iteration at a time
  cname,          \* the characters (UTF-16 code units) consumed so far
  chash,          \* the accumulator `hash` after consuming cname
  cname2,         \* a second area name, coloured alongside the first
  \* ---- fetchAreaInfo, one call
  fname,          \* the areaName argument
  fpc,            \* where the call is: idle, search1, search2, summary, done
  flog,           \* the requests issued so far, in order
  fseen,          \* the responses received so far, in order
  fresult,        \* the returned AreaInfoSummary, or NoResult
  \* ---- component state (useState / useRef)
  mapInstance,    \* mapInstanceRef.current is set
  loadPc,         \* loadGeoJSON: "loading", "done" or "failed"
  curacaoGeoJSON, \* <<the loaded feature list>>, or <<>> for null
  churchesData,   \* ChurchFeature[]
  areas,          \* AreaInfo[] (names)
  filteredAreas,  \* AreaInfo[] (names)
  searchTerm,     \* the search box's value
  selectedArea,   \* <<name>>, or <<>> for null
  \* ---- the Leaflet side
  geoJsonLayer,   \* geoJsonLayerRef.current: <<[gen, sel]>>, or <<>> for null
  layerStyle,     \* feature index -> style of its layer in the current group
  labelOnMap,     \* the label markers on the map: records [feat, gen]
  popups,         \* the popup bound to each layer: records [feat, gen, ...]
  openPopup,      \* <<the popup open on the map>>, or <<>>
  hover,          \* the feature whose layer got mouseover last, if any
  mapView,        \* what the map view was last fitted or set to
  pending,        \* selectArea calls suspended at `await createPopupContent`
  nSelect,        \* number of selectArea calls so far
  lastSelects,    \* history: the last two selectArea calls
  churchMarkers,  \* churchMarkersRef.current
  mapMarkers,     \* the church markers that are on the map
  nShow,          \* number of showChurchesForArea calls so far
  lastShow,       \* history: the argument of the last showChurchesForArea call
  nClear,         \* number of direct clearChurchMarkers calls so far
  lastCall        \* history: <<the last call on the church overlay>>

colorVars == <<cname, chash, cname2>>
fetchVars == <<fname, fpc, flog, fseen, fresult>>
dataVars == <<loadPc, curacaoGeoJSON, churchesData, areas>>
filterVars == <<filteredAreas, searchTerm>>
leafletVars ==
  <<geoJsonLayer, layerStyle, labelOnMap, popups, openPopup, hover, mapView>>
selectVars == <<selectedArea, pending, nSelect, lastSelects>>
churchVars == <<churchMarkers, mapMarkers, nShow, lastShow, nClear, lastCall>>
vars == <<colorVars, fetchVars, mapInstance, dataVars, filterVars, leafletVars,
          selectVars, churchVars>>

Null == "null"

(***************************************************************************)
(* Bounds of the model.                                                    *)
(***************************************************************************)
MaxNameLen == 5      \* longest name fed to getAreaColor
MaxName2Len == 1     \* longest second name
MaxQueryLen == 3     \* longest search query typed
MaxSelect == 3       \* selectArea calls in one run
MaxShow == 3         \* showChurchesForArea calls in one run
MaxClear == 2        \* direct clearChurchMarkers calls in one run

(***************************************************************************)
(* Numbers beyond 32 bits.  `hash` is a JavaScript number: `hash << 5` is  *)
(* a 32-bit result, but `(hash << 5) - hash` and the addition are done on  *)
(* doubles and leave the 32-bit range.  A number n is kept as              *)
(* [hi, lo] with n = hi * 65536 + lo and 0 <= lo < 65536.                  *)
(***************************************************************************)
Half == 65536

Norm(hi, lo) == [hi |-> hi + (lo \div Half), lo |-> lo % Half]

Zero == [hi |-> 0, lo |-> 0]

Neg(n) == Norm(-n.hi, -n.lo)

Sub(a, b) == Norm(a.hi - b.hi, a.lo - b.lo)

AddSmall(a, c) == Norm(a.hi, a.lo + c)

IsNeg(n) == n.hi < 0

\* Math.abs
Abs(n) == IF IsNeg(n) THEN Neg(n) ELSE n

\* n mod m for n >= 0
ModPos(n, m) == (((n.hi % m) * (Half % m)) + n.lo) % m

\* JavaScript's %: the result has the sign of the dividend
JsRem(n, m) == IF IsNeg(n) THEN 0 - ModPos(Neg(n), m) ELSE ModPos(n, m)

\* hash << 5: ToInt32 of the operand, shifted, as a signed 32-bit value
Shl5(n) ==
  LET lo32 == n.lo * 32
      hi16 == (((n.hi % Half) * 32) + (lo32 \div Half)) % Half
  IN  [hi |-> IF hi16 >= Half \div 2 THEN hi16 - Half ELSE hi16,
       lo |-> lo32 % Half]

InInt32(n) == n.hi >= 0 - (Half \div 2) /\ n.hi < Half \div 2

(***************************************************************************)
(* getAreaColor                                                            *)
(***************************************************************************)
colors ==
  << "#FF6B6B", "#4ECDC4", "#45B7D1", "#96CEB4", "#FECA57",
     "#FF9FF3", "#54A0FF", "#5F27CD", "#00D2D3", "#FF9F43",
     "#C44569", "#F8B500", "#6C5CE7", "#A55EEA", "#26DE81",
     "#FD79A8", "#E17055", "#00B894", "#0984E3", "#6C5CE7",
     "#F39C12", "#E74C3C", "#9B59B6", "#3498DB", "#1ABC9C",
     "#E67E22", "#95A5A6", "#34495E", "#2ECC71", "#F1C40F" >>

\* one iteration of the loop: hash = charCode + ((hash << 5) - hash)
HashStep(hash, code) == AddSmall(Sub(Shl5(hash), hash), code)

RECURSIVE HashFrom(_, _)
HashFrom(hash, codes) ==
  IF codes = <<>> THEN hash
  ELSE HashFrom(HashStep(hash, Head(codes)), Tail(codes))

HashOf(codes) == HashFrom(Zero, codes)

ColorIndexNoAbs(hash) == JsRem(hash, Len(colors))

\* Math.abs(hash) % colors.length
ColorIndex(hash) == JsRem(Abs(hash), Len(colors))

Undefined == "undefined"

\* colors[colorIndex]: an index outside the array reads undefined
ColorAt(i) == IF i \in 0..(Len(colors) - 1) THEN colors[i + 1] ELSE Undefined

getAreaColor(codes) == ColorAt(ColorIndex(HashOf(codes)))

\* The code units the colour model draws names from: 'A', '_', and 0xFFFF.
CharCodes == {65, 95, 65535}

(***************************************************************************)
(* Characters and strings.  A string is a sequence of one-character        *)
(* strings; LoneSurrogate stands for an unpaired UTF-16 surrogate code     *)
(* unit, which a name read from JSON may contain.                          *)
(***************************************************************************)
LoneSurrogate == "<D800>"

LowerLetters == <<"a", "b", "k", "n", "o", "u", "w">>

UpperLetters == <<"A", "B", "K", "N", "O", "U", "W">>

LetterIn(c, letters) == \E i \in 1..Len(letters) : letters[i] = c

IndexIn(c, letters) == CHOOSE i \in 1..Len(letters) : letters[i] = c

toLowerChar(c) ==
  IF LetterIn(c, UpperLetters) THEN LowerLetters[IndexIn(c, UpperLetters)] ELSE c

toUpperChar(c) ==
  IF LetterIn(c, LowerLetters) THEN UpperLetters[IndexIn(c, LowerLetters)] ELSE c

toLowerCase(s) == [i \in 1..Len(s) |-> toLowerChar(s[i])]

toUpperCase(s) == [i \in 1..Len(s) |-> toUpperChar(s[i])]

IsWhitespace(c) == c = " "

\* String.prototype.trim
RECURSIVE trimStart(_)
trimStart(s) ==
  IF s # <<>> /\ IsWhitespace(Head(s)) THEN trimStart(Tail(s)) ELSE s

RECURSIVE trimEnd(_)
trimEnd(s) ==
  IF s # <<>> /\ IsWhitespace(s[Len(s)])
  THEN trimEnd(SubSeq(s, 1, Len(s) - 1))
  ELSE s

trim(s) == trimEnd(trimStart(s))

\* String.prototype.includes
includes(s, q) ==
  \E i \in 1..(Len(s) + 1) :
    /\ i + Len(q) - 1 <= Len(s)
    /\ SubSeq(s, i, i + Len(q) - 1) = q

\* encodeURIComponent throws URIError on an unpaired surrogate
EncodeThrows(s) == \E i \in 1..Len(s) : s[i] = LoneSurrogate

(***************************************************************************)
(* fetchAreaInfo.  A request is recorded with the text the server          *)
(* receives.  A response is what `await fetch(..)` followed by             *)
(* `await res.json()` gives: the fetch rejects, the body is not JSON, the  *)
(* JSON lacks the fields read, or the data.                                *)
(***************************************************************************)
SpaceCuracao == <<" ", "C", "u", "r", "a", "c_cedilla", "a", "o">>

SearchReq(q) == [kind |-> "search", srsearch |-> q]

SummaryReq(t) == [kind |-> "summary", title |-> t]

Failure(areaName) ==
  [title |-> areaName, extract |-> "Information not available.",
   thumbnail |-> Null, pageUrl |-> Null]

NoInfo(areaName) ==
  [title |-> areaName,
   extract |-> "No Wikipedia information available for this area.",
   thumbnail |-> Null, pageUrl |-> Null]

\* x || d
OrElse(x, d) == IF x \in {Undefined, ""} THEN d ELSE x

\* the object returned at lines 163-168; data.title is <<>> when absent
Summary(areaName, data) ==
  [title |-> IF data.title = <<>> \/ data.title = << <<>> >>
             THEN areaName ELSE data.title[1],
   extract |-> OrElse(data.extract, "No description available."),
   thumbnail |-> OrElse(data.thumbnail, Null),
   pageUrl |-> OrElse(data.page, Null)]

Running(pc, log) == [pc |-> pc, log |-> log, result |-> <<>>]

Returned(log, result) == [pc |-> "done", log |-> log, result |-> <<result>>]

Threw(log) == [pc |-> "threw", log |-> log, result |-> <<>>]

CatchNothing(areaName, st) == st

\* the catch block, lines 169-177
Catch(areaName, st) ==
  IF st.pc = "threw" THEN Returned(st.log, Failure(areaName)) ELSE st

FetchBeginNameOnly(areaName) ==
  IF EncodeThrows(areaName)
  THEN Threw(<<>>)
  ELSE Running("search1", <<SearchReq(areaName)>>)

\* lines 126-131: build the first query and issue the first search
FetchBegin(areaName) ==
  IF EncodeThrows(areaName \o SpaceCuracao)
  THEN Threw(<<>>)
  ELSE Running("search1", <<SearchReq(areaName \o SpaceCuracao)>>)

AfterSearchNoEmptyCheck(areaName, log, resp) ==
  IF Len(resp.titles) = 0 \/ EncodeThrows(resp.titles[1])
  THEN Threw(log)
  ELSE Running("summary", Append(log, SummaryReq(resp.titles[1])))

\* lines 145-160, on the data of the last search made
AfterSearch(areaName, log, resp) ==
  IF Len(resp.titles) = 0
  THEN Returned(log, NoInfo(areaName))
  ELSE IF EncodeThrows(resp.titles[1])
       THEN Threw(log)
       ELSE Running("summary", Append(log, SummaryReq(resp.titles[1])))

\* the code between one await and the next (or the return)
FetchResume(areaName, st, resp) ==
  IF resp.kind # "ok"
  THEN Threw(st.log)
  ELSE CASE st.pc = "search1" ->
              IF Len(resp.titles) = 0
              THEN IF EncodeThrows(areaName)
                   THEN Threw(st.log)
                   ELSE Running("search2", Append(st.log, SearchReq(areaName)))
              ELSE AfterSearch(areaName, st.log, resp)
         [] st.pc = "search2" -> AfterSearch(areaName, st.log, resp)
         [] st.pc = "summary" -> Returned(st.log, Summary(areaName, resp.data))

FetchStart(areaName) == Catch(areaName, FetchBegin(areaName))

FetchOnResponse(areaName, st, resp) ==
  Catch(areaName, FetchResume(areaName, st, resp))

\* ---- the responses the model draws from
TitleW == <<"W">>
TitleX == <<"X", "y">>
TitleBad == <<"W", LoneSurrogate>>

FailedResponses ==
  {[kind |-> "reject"], [kind |-> "badjson"], [kind |-> "badshape"]}

SearchResponses ==
  FailedResponses \cup
  {[kind |-> "ok", titles |-> ts] :
     ts \in {<<>>, <<TitleW>>, <<TitleX, TitleW>>, <<TitleBad>>}}

SummaryData ==
  { [title |-> <<TitleW>>, extract |-> "Capital of Curacao.",
     thumbnail |-> "https://upload/w.jpg", page |-> "https://en.wikipedia.org/wiki/W"],
    [title |-> << <<>> >>, extract |-> "", thumbnail |-> Undefined,
     page |-> Undefined],
    [title |-> <<>>, extract |-> Undefined, thumbnail |-> Undefined,
     page |-> "https://en.wikipedia.org/wiki/W"] }

SummaryResponses ==
  FailedResponses \cup {[kind |-> "ok", data |-> d] : d \in SummaryData}

ResponsesAt(pc) ==
  IF pc = "summary" THEN SummaryResponses
  ELSE IF pc \in {"search1", "search2"} THEN SearchResponses ELSE {}

\* the area names the fetch model is called with
FetchNames == {<<"A", "b">>, <<"B">>, <<>>, <<"B", LoneSurrogate>>}

\* a whole call, given the responses the network will give in order
RECURSIVE RunFetch(_, _, _)
RunFetch(areaName, st, script) ==
  IF st.pc = "done" \/ script = <<>> THEN st
  ELSE RunFetch(areaName, FetchOnResponse(areaName, st, Head(script)),
                Tail(script))


(***************************************************************************)
(* The dataset /cw.json and loadGeoJSON.  A property that may be missing   *)
(* is <<>> when absent and <<value>> when present.                         *)
(***************************************************************************)
Unknown == <<"U", "n", "k", "n", "o", "w", "n">>

UnknownArea == Unknown \o <<" ", "A", "r", "e", "a">>

Area(type, NAME) == [type |-> type, NAME |-> NAME, area |-> <<>>]

Church(area) == [type |-> "Point", NAME |-> <<>>, area |-> area]

Dataset ==
  << Area("MultiPolygon", << <<"B">> >>),
     Area("Polygon", << <<"A", "b">> >>),
     Area("Polygon", <<>>),
     Church(<< <<"a", "B">> >>),
     Church(<< <<"B">> >>),
     Church(<< <<"A", "b">> >>) >>

FeatureIds == 1..Len(Dataset)

IsPolygon(f) == f.type = "Polygon" \/ f.type = "MultiPolygon"

\* p || d for an optional string: missing and "" are falsy
StrOr(p, d) == IF p = <<>> \/ p[1] = <<>> THEN d ELSE p[1]

\* feature.properties.NAME || 'Unknown'
AreaNameOf(f) == StrOr(f.NAME, Unknown)

\* feature.properties.NAME === areaName
NameIs(f, areaName) == f.NAME # <<>> /\ f.NAME[1] = areaName

\* String.prototype.localeCompare: letters first, case only to break ties,
\* lower case before upper case
Rank(c) ==
  IF LetterIn(toLowerChar(c), LowerLetters)
  THEN IndexIn(toLowerChar(c), LowerLetters) ELSE 0

RECURSIVE PrimaryCompare(_, _)
PrimaryCompare(a, b) ==
  IF a = <<>> /\ b = <<>> THEN 0
  ELSE IF a = <<>> THEN -1
  ELSE IF b = <<>> THEN 1
  ELSE IF Rank(Head(a)) < Rank(Head(b)) THEN -1
  ELSE IF Rank(Head(a)) > Rank(Head(b)) THEN 1
  ELSE PrimaryCompare(Tail(a), Tail(b))

RECURSIVE CaseCompare(_, _)
CaseCompare(a, b) ==
  IF a = <<>> THEN 0
  ELSE IF Head(a) = Head(b) THEN CaseCompare(Tail(a), Tail(b))
  ELSE IF Head(a) = toLowerChar(Head(a)) THEN -1 ELSE 1

localeCompare(a, b) ==
  IF PrimaryCompare(a, b) # 0 THEN PrimaryCompare(a, b) ELSE CaseCompare(a, b)

Unsorted(names) == names

\* Array.prototype.sort with the comparator of line 55 (stable)
RECURSIVE InsertSorted(_, _)
InsertSorted(sorted, x) ==
  IF sorted = <<>> THEN <<x>>
  ELSE IF localeCompare(x, Head(sorted)) < 0 THEN <<x>> \o sorted
  ELSE <<Head(sorted)>> \o InsertSorted(Tail(sorted), x)

RECURSIVE SortNames(_)
SortNames(names) ==
  IF names = <<>> THEN <<>>
  ELSE InsertSorted(SortNames(SubSeq(names, 1, Len(names) - 1)),
                    names[Len(names)])

RECURSIVE PolygonIds(_, _)
PolygonIds(data, i) ==
  IF i > Len(data) THEN <<>>
  ELSE (IF IsPolygon(data[i]) THEN <<i>> ELSE <<>>) \o PolygonIds(data, i + 1)

RECURSIVE PointIds(_, _)
PointIds(data, i) ==
  IF i > Len(data) THEN <<>>
  ELSE (IF data[i].type = "Point" THEN <<i>> ELSE <<>>) \o PointIds(data, i + 1)

\* lines 48-55: the names of the polygon features, sorted
AreaList(data) ==
  SortNames([k \in 1..Len(PolygonIds(data, 1)) |->
               AreaNameOf(data[PolygonIds(data, 1)[k]])])

\* lines 58-72: the point features, with area defaulted
ChurchList(data) ==
  [k \in 1..Len(PointIds(data, 1)) |->
     [id |-> PointIds(data, 1)[k],
      area |-> StrOr(data[PointIds(data, 1)[k]].area, UnknownArea)]]

Range(seq) == {seq[i] : i \in 1..Len(seq)}

(***************************************************************************)
(* The search effect, lines 584-593                                        *)
(***************************************************************************)
MatchesExact(name, term) == includes(toLowerCase(name), term)

\* area.name.toLowerCase().includes(searchTerm.toLowerCase())
Matches(name, term) == includes(toLowerCase(name), toLowerCase(term))

RECURSIVE FilterSeq(_, _)
FilterSeq(list, term) ==
  IF list = <<>> THEN <<>>
  ELSE (IF Matches(Head(list), term) THEN <<Head(list)>> ELSE <<>>)
       \o FilterSeq(Tail(list), term)

SearchEffect(list, term) ==
  IF trim(term) = <<>> THEN list ELSE FilterSeq(list, term)

\* the characters typed into the search box
QueryChars == {"a", "B", "b", " "}


(***************************************************************************)
(* The church overlay, lines 207-318.  A marker is one L.marker object:    *)
(* the church it stands for and the call that created it.                  *)
(***************************************************************************)
ChurchMatchesExact(church, areaName) == church.area = areaName

\* church.properties.area.toUpperCase() === areaName.toUpperCase()
ChurchMatches(church, areaName) ==
  toUpperCase(church.area) = toUpperCase(areaName)

RECURSIVE AreaChurches(_, _)
AreaChurches(list, areaName) ==
  IF list = <<>> THEN <<>>
  ELSE (IF ChurchMatches(Head(list), areaName) THEN <<Head(list)>> ELSE <<>>)
       \o AreaChurches(Tail(list), areaName)

\* the markers created by lines 229-317 in call number callNo
NewMarkers(list, areaName, callNo) ==
  [k \in 1..Len(AreaChurches(list, areaName)) |->
     [church |-> AreaChurches(list, areaName)[k].id, call |-> callNo]]

KeptOnMap(onMap, tracked) == onMap

\* clearChurchMarkers: what is left on the map
ClearedMap(onMap, tracked) == onMap \ Range(tracked)

\* clearChurchMarkers(), lines 207-214
clearChurchMarkers ==
  IF mapInstance
  THEN /\ churchMarkers' = <<>>
       /\ mapMarkers' = ClearedMap(mapMarkers, churchMarkers)
  ELSE UNCHANGED <<churchMarkers, mapMarkers>>

\* what the history keeps of a call on the overlay
OverlayCall(op, arg) == [op |-> op, arg |-> arg, data |-> churchesData]

\* showChurchesForArea(areaName)
showChurchesForArea(areaName) ==
  IF ~mapInstance
  THEN UNCHANGED <<churchMarkers, mapMarkers>>
  ELSE /\ churchMarkers' = NewMarkers(churchesData, areaName, nShow + 1)
       /\ mapMarkers' = ClearedMap(mapMarkers, churchMarkers)
                          \cup Range(churchMarkers')

(***************************************************************************)
(* The polygon layer.  The group in geoJsonLayerRef is rebuilt by the      *)
(* effect of lines 645-672; each build is a generation of layer objects,   *)
(* and the handlers and the style function given to a build see the        *)
(* selectedArea of the render that built it.                               *)
(***************************************************************************)
Emphasized == [weight |-> 3, color |-> "#1d4ed8", fillOpacity |-> "0.9"]

DefaultStyle == [weight |-> 1, color |-> "#ffffff", fillOpacity |-> "0.7"]

styleIgnoringSelection(f, sel) == DefaultStyle

\* style(feature), lines 106-120, under the selection sel
style(f, sel) == IF sel = <<AreaNameOf(f)>> THEN Emphasized ELSE DefaultStyle

Features == IF curacaoGeoJSON = <<>> THEN <<>> ELSE curacaoGeoJSON[1]

CurGen == IF geoJsonLayer = <<>> THEN 0 ELSE geoJsonLayer[1].gen

\* the features that have a layer in the current group
LayerIds == DOMAIN layerStyle

\* onEachFeature creates a label only for a truthy NAME (line 544)
HasLabel(f) == f.NAME # <<>> /\ f.NAME[1] # <<>>

LabelOf(i) == [feat |-> i, gen |-> CurGen]

\* the loop of lines 478-521 over the current group: styles
Restyled(areaName) ==
  [i \in LayerIds |->
     IF NameIs(Features[i], areaName) THEN Emphasized ELSE DefaultStyle]

\* the loop of lines 478-521 over the current group: labels on the map
Relabelled(areaName) ==
  IF ~mapInstance THEN labelOnMap
  ELSE (labelOnMap \ {LabelOf(i) : i \in LayerIds})
         \cup {LabelOf(i) : i \in {j \in LayerIds :
                 NameIs(Features[j], areaName) /\ HasLabel(Features[j])}}

\* the last layer whose area name (NAME || 'Unknown') is areaName
findLayerByAreaName(areaName) ==
  IF {i \in LayerIds : AreaNameOf(Features[i]) = areaName} = {} THEN <<>>
  ELSE << CHOOSE i \in LayerIds :
            /\ AreaNameOf(Features[i]) = areaName
            /\ \A j \in LayerIds : AreaNameOf(Features[j]) = areaName => j <= i >>

\* findAreaLayer, lines 596-607: the last layer whose NAME is areaName
findAreaLayer(areaName) ==
  IF {i \in LayerIds : NameIs(Features[i], areaName)} = {} THEN <<>>
  ELSE << CHOOSE i \in LayerIds :
            /\ NameIs(Features[i], areaName)
            /\ \A j \in LayerIds : NameIs(Features[j], areaName) => j <= i >>

\* The effect of lines 645-672 for the render with feature list data and
\* selection sel: the labels of the old group leave the map, the old group
\* is removed (which closes a popup open on one of its layers), and a new
\* group is built and styled.
UpdateMapLayer(data, sel, labels) ==
  IF mapInstance /\ data # <<>>
  THEN /\ labelOnMap' = labels \ {LabelOf(i) : i \in LayerIds}
       /\ geoJsonLayer' = << [gen |-> CurGen + 1, sel |-> sel] >>
       /\ layerStyle' =
            [i \in Range(PolygonIds(data[1], 1)) |-> style(data[1][i], sel)]
       /\ openPopup' = IF openPopup # <<>> /\ openPopup[1].gen = CurGen
                       THEN <<>> ELSE openPopup
       /\ hover' = <<>>
  ELSE /\ labelOnMap' = labels
       /\ UNCHANGED <<geoJsonLayer, layerStyle, openPopup, hover>>

(***************************************************************************)
(* loadGeoJSON, lines 40-83, and the effects its state updates trigger     *)
(***************************************************************************)
LoadOk ==
  /\ loadPc = "loading"
  /\ loadPc' = "done"
  /\ curacaoGeoJSON' = <<Dataset>>
  /\ areas' = AreaList(Dataset)
  /\ churchesData' = ChurchList(Dataset)
  /\ filteredAreas' = SearchEffect(areas', searchTerm)
  /\ UpdateMapLayer(curacaoGeoJSON', selectedArea, labelOnMap)
  /\ UNCHANGED <<colorVars, fetchVars, mapInstance, searchTerm, popups,
                 mapView, selectVars, churchVars>>

\* fetch('/cw.json') rejects or the body is not JSON: the catch of line 77
LoadFail ==
  /\ loadPc = "loading"
  /\ loadPc' = "failed"
  /\ UNCHANGED <<colorVars, fetchVars, mapInstance, curacaoGeoJSON,
                 churchesData, areas, filterVars, leafletVars, selectVars,
                 churchVars>>

\* a file whose last feature has `properties: null`
BrokenDataset ==
  << Area("Polygon", << <<"B">> >>),
     Area("MultiPolygon", << <<"A", "b">> >>),
     [type |-> "Point", NAME |-> <<>>, area |-> <<>>, properties |-> Null] >>

HasProperties(f) == "properties" \notin DOMAIN f

\* lines 48-72 read feature.properties.NAME of every polygon and
\* feature.properties.name of every point: a TypeError without properties
ExtractionThrows(data) == \E i \in 1..Len(data) : ~HasProperties(data[i])

\* the file is fetched and parsed, setCuracaoGeoJSON(data) of line 45 runs,
\* and the extraction of lines 48-72 throws into the catch of line 77: the
\* setters of lines 74-76 are not reached, and the layer effect runs for
\* the new curacaoGeoJSON
LoadExtractFail ==
  /\ loadPc = "loading"
  /\ ExtractionThrows(BrokenDataset)
  /\ loadPc' = "failed"
  /\ curacaoGeoJSON' = <<BrokenDataset>>
  /\ UpdateMapLayer(curacaoGeoJSON', selectedArea, labelOnMap)
  /\ UNCHANGED <<colorVars, fetchVars, mapInstance, churchesData, areas,
                 filterVars, popups, mapView, selectVars, churchVars>>

\* onChange of the search box (line 688), then the search effect
SetSearchTerm(term) ==
  /\ searchTerm' = term
  /\ filteredAreas' = SearchEffect(areas, term)
  /\ UNCHANGED <<colorVars, fetchVars, mapInstance, dataVars, leafletVars,
                 selectVars, churchVars>>

TypeChar ==
  \E c \in QueryChars :
    /\ Len(searchTerm) < MaxQueryLen
    /\ SetSearchTerm(Append(searchTerm, c))

DeleteChar ==
  /\ searchTerm # <<>>
  /\ SetSearchTerm(SubSeq(searchTerm, 1, Len(searchTerm) - 1))

(***************************************************************************)
(* The state after the first commit: the map is created (lines 610-619),   *)
(* nothing is loaded or selected.                                          *)
(***************************************************************************)
ColorIdle == cname = <<>> /\ chash = Zero /\ cname2 = <<>>

FetchIdle ==
  /\ fname = <<>>
  /\ fpc = "idle"
  /\ flog = <<>>
  /\ fseen = <<>>
  /\ fresult = <<>>

Mounted ==
  /\ mapInstance = TRUE
  /\ loadPc = "loading"
  /\ curacaoGeoJSON = <<>>
  /\ churchesData = <<>>
  /\ areas = <<>>
  /\ filteredAreas = <<>>
  /\ searchTerm = <<>>
  /\ selectedArea = <<>>
  /\ geoJsonLayer = <<>>
  /\ layerStyle = <<>>
  /\ labelOnMap = {}
  /\ popups = {}
  /\ openPopup = <<>>
  /\ hover = <<>>
  /\ mapView = <<>>
  /\ pending = {}
  /\ nSelect = 0
  /\ lastSelects = <<>>
  /\ churchMarkers = <<>>
  /\ mapMarkers = {}
  /\ nShow = 0
  /\ lastShow = <<>>
  /\ nClear = 0
  /\ lastCall = <<>>

(***************************************************************************)
(* selectArea, lines 458-522.  A call made with a layer suspends at        *)
(* `await createPopupContent(..)`; React re-renders and runs the layer     *)
(* effect before the fetch can resolve, so the rebuild is part of the      *)
(* click, and the rest of selectArea runs when the fetch resolves.  A call *)
(* made without a layer runs through to the restyling loop before the      *)
(* re-render.                                                              *)
(***************************************************************************)
\* the info fetches the selection model lets the network answer
ScriptFound ==
  << [kind |-> "ok", titles |-> <<TitleW>>],
     [kind |-> "ok",
      data |-> [title |-> <<TitleW>>, extract |-> "Capital of Curacao.",
                thumbnail |-> "https://upload/w.jpg",
                page |-> "https://en.wikipedia.org/wiki/W"]] >>

ScriptDown == << [kind |-> "reject"] >>

Scripts == {ScriptFound, ScriptDown}

\* createPopupContent, lines 321-418: what the popup shows
PopupContent(areaName, info) ==
  [areaName |-> areaName, info |-> info,
   nChurches |-> Len(AreaChurches(churchesData, areaName))]

BoundPopup(i, gen) == {q \in popups : q.feat = i /\ q.gen = gen}

SelectAreaKeepingLabels(areaName, layer, popupNow) ==
  LET withLayer == layer # <<>> /\ mapInstance
      styleNow == IF withLayer THEN layerStyle ELSE Restyled(areaName)
      labelsNow == IF withLayer THEN labelOnMap ELSE Relabelled(areaName)
  IN  /\ nSelect < MaxSelect
      /\ nSelect' = nSelect + 1
      /\ selectedArea' = <<areaName>>
      /\ lastSelects' =
           (IF lastSelects = <<>> THEN <<>>
            ELSE <<lastSelects[Len(lastSelects)]>>)
             \o << [arg |-> areaName, layer |-> layer] >>
      /\ mapView' = IF withLayer THEN <<"bounds", layer[1]>> ELSE mapView
      /\ pending' =
           IF withLayer
           THEN pending \cup
                  {[id |-> nSelect + 1, arg |-> areaName, feat |-> layer[1],
                    gen |-> CurGen]}
           ELSE pending
      /\ IF selectedArea # <<areaName>> /\ mapInstance /\ curacaoGeoJSON # <<>>
         THEN /\ labelOnMap' = labelsNow
              /\ geoJsonLayer' =
                   << [gen |-> CurGen + 1, sel |-> <<areaName>>] >>
              /\ layerStyle' =
                   [i \in LayerIds |-> style(Features[i], <<areaName>>)]
              /\ openPopup' = IF popupNow # <<>> /\ popupNow[1].gen = CurGen
                              THEN <<>> ELSE popupNow
              /\ hover' = <<>>
         ELSE /\ labelOnMap' = labelsNow
              /\ layerStyle' = styleNow
              /\ openPopup' = popupNow
              /\ UNCHANGED <<geoJsonLayer, hover>>
      /\ UNCHANGED <<colorVars, fetchVars, mapInstance, dataVars, filterVars,
                     popups, churchVars>>

SelectArea(areaName, layer, popupNow) ==
  LET withLayer == layer # <<>> /\ mapInstance
      styleNow == IF withLayer THEN layerStyle ELSE Restyled(areaName)
      labelsNow == IF withLayer THEN labelOnMap ELSE Relabelled(areaName)
  IN  /\ nSelect < MaxSelect
      /\ nSelect' = nSelect + 1
      /\ selectedArea' = <<areaName>>
      /\ lastSelects' =
           (IF lastSelects = <<>> THEN <<>>
            ELSE <<lastSelects[Len(lastSelects)]>>)
             \o << [arg |-> areaName, layer |-> layer] >>
      /\ mapView' = IF withLayer THEN <<"bounds", layer[1]>> ELSE mapView
      /\ pending' =
           IF withLayer
           THEN pending \cup
                  {[id |-> nSelect + 1, arg |-> areaName, feat |-> layer[1],
                    gen |-> CurGen]}
           ELSE pending
      /\ IF selectedArea # <<areaName>> /\ mapInstance /\ curacaoGeoJSON # <<>>
         THEN /\ labelOnMap' = labelsNow \ {LabelOf(i) : i \in LayerIds}
              /\ geoJsonLayer' =
                   << [gen |-> CurGen + 1, sel |-> <<areaName>>] >>
              /\ layerStyle' =
                   [i \in LayerIds |-> style(Features[i], <<areaName>>)]
              /\ openPopup' = IF popupNow # <<>> /\ popupNow[1].gen = CurGen
                              THEN <<>> ELSE popupNow
              /\ hover' = <<>>
         ELSE /\ labelOnMap' = labelsNow
              /\ layerStyle' = styleNow
              /\ openPopup' = popupNow
              /\ UNCHANGED <<geoJsonLayer, hover>>
      /\ UNCHANGED <<colorVars, fetchVars, mapInstance, dataVars, filterVars,
                     popups, churchVars>>

\* the className of the entry of the area list, lines 716-720
IsListEntryHighlighted(name, sel) == sel = <<name>>

\* zoomToFeature, lines 525-533: a click on the layer of feature i.  Leaflet
\* closes the open popup on any click on the map and opens the popup bound
\* to the clicked layer.
MapClick ==
  \E i \in LayerIds :
    SelectArea(AreaNameOf(Features[i]), <<i>>,
               IF BoundPopup(i, CurGen) = {} THEN <<>>
               ELSE << CHOOSE q \in BoundPopup(i, CurGen) : TRUE >>)

\* the onClick of an entry of the area list, lines 712-715
ListClick ==
  \E k \in 1..Len(filteredAreas) :
    SelectArea(filteredAreas[k], findAreaLayer(filteredAreas[k]), openPopup)

ResolveFetchReusingPopup ==
  \E p \in pending, script \in Scripts :
    LET areaName == AreaNameOf(Features[p.feat])
        earlier == BoundPopup(p.feat, p.gen)
        popup == IF earlier # {} THEN CHOOSE q \in earlier : TRUE
                 ELSE [feat |-> p.feat, gen |-> p.gen, id |-> p.id,
                       onMap |-> p.gen = CurGen,
                       content |->
                         PopupContent(areaName,
                           RunFetch(areaName, FetchStart(areaName),
                                    script).result[1])]
    IN  /\ pending' = pending \ {p}
        /\ popups' = (popups \ earlier) \cup {popup}
        /\ openPopup' = IF p.gen = CurGen THEN <<popup>> ELSE openPopup
        /\ layerStyle' = Restyled(p.arg)
        /\ labelOnMap' = Relabelled(p.arg)
        /\ UNCHANGED <<colorVars, fetchVars, mapInstance, dataVars, filterVars,
                       geoJsonLayer, hover, mapView, selectedArea, nSelect,
                       lastSelects, churchVars>>

ResolveFetchUnlessStale ==
  \E p \in pending, script \in Scripts :
    LET areaName == AreaNameOf(Features[p.feat])
        stale == selectedArea # <<p.arg>>
        popup == [feat |-> p.feat, gen |-> p.gen, id |-> p.id,
                  onMap |-> p.gen = CurGen,
                  content |->
                    PopupContent(areaName,
                      RunFetch(areaName, FetchStart(areaName), script).result[1])]
    IN  /\ pending' = pending \ {p}
        /\ popups' = IF stale THEN popups
                      ELSE (popups \ BoundPopup(p.feat, p.gen)) \cup {popup}
        /\ openPopup' = IF p.gen = CurGen /\ ~stale THEN <<popup>>
                        ELSE openPopup
        /\ layerStyle' = IF stale THEN layerStyle ELSE Restyled(p.arg)
        /\ labelOnMap' = IF stale THEN labelOnMap ELSE Relabelled(p.arg)
        /\ UNCHANGED <<colorVars, fetchVars, mapInstance, dataVars, filterVars,
                       geoJsonLayer, hover, mapView, selectedArea, nSelect,
                       lastSelects, churchVars>>

\* The info fetch of a suspended selectArea call resolves: lines 468-473
\* bind the popup to the layer the call was given and open it (Leaflet opens
\* a popup only for a layer that is on the map), then the loop of lines
\* 478-521 restyles the current group for the call's areaName.
ResolveFetch ==
  \E p \in pending, script \in Scripts :
    LET areaName == AreaNameOf(Features[p.feat])
        popup == [feat |-> p.feat, gen |-> p.gen, id |-> p.id,
                  onMap |-> p.gen = CurGen,
                  content |->
                    PopupContent(areaName,
                      RunFetch(areaName, FetchStart(areaName), script).result[1])]
    IN  /\ pending' = pending \ {p}
        /\ popups' = (popups \ BoundPopup(p.feat, p.gen)) \cup {popup}
        /\ openPopup' = IF p.gen = CurGen THEN <<popup>> ELSE openPopup
        /\ layerStyle' = Restyled(p.arg)
        /\ labelOnMap' = Relabelled(p.arg)
        /\ UNCHANGED <<colorVars, fetchVars, mapInstance, dataVars, filterVars,
                       geoJsonLayer, hover, mapView, selectedArea, nSelect,
                       lastSelects, churchVars>>

MouseOverEveryLayer ==
  \E i \in LayerIds :
    /\ hover = <<>>
    /\ hover' = <<i>>
    /\ layerStyle' = [j \in LayerIds |-> Emphasized]
    /\ labelOnMap' = IF mapInstance
                     THEN labelOnMap \cup
                            {LabelOf(j) : j \in {k \in LayerIds :
                                                   HasLabel(Features[k])}}
                     ELSE labelOnMap
    /\ UNCHANGED <<colorVars, fetchVars, mapInstance, dataVars, filterVars,
                   geoJsonLayer, popups, openPopup, mapView, selectVars,
                   churchVars>>

\* highlightFeature, lines 421-438: mouseover on the layer of feature i
MouseOver ==
  \E i \in LayerIds :
    /\ hover = <<>>
    /\ hover' = <<i>>
    /\ layerStyle' = [layerStyle EXCEPT ![i] = Emphasized]
    /\ labelOnMap' = IF HasLabel(Features[i]) /\ mapInstance
                     THEN labelOnMap \cup {LabelOf(i)} ELSE labelOnMap
    /\ UNCHANGED <<colorVars, fetchVars, mapInstance, dataVars, filterVars,
                   geoJsonLayer, popups, openPopup, mapView, selectVars,
                   churchVars>>

\* resetHighlight, lines 441-455: mouseout of the layer of feature i; the
\* style function and selectedArea are those of the render that built the
\* group
MouseOut ==
  \E i \in LayerIds :
    /\ hover = <<i>>
    /\ hover' = <<>>
    /\ layerStyle' =
         [layerStyle EXCEPT ![i] = style(Features[i], geoJsonLayer[1].sel)]
    /\ labelOnMap' =
         IF /\ HasLabel(Features[i])
            /\ mapInstance
            /\ ~(geoJsonLayer[1].sel # <<>>
                   /\ NameIs(Features[i], geoJsonLayer[1].sel[1]))
         THEN labelOnMap \ {LabelOf(i)}
         ELSE labelOnMap
    /\ UNCHANGED <<colorVars, fetchVars, mapInstance, dataVars, filterVars,
                   geoJsonLayer, popups, openPopup, mapView, selectVars,
                   churchVars>>

\* window.showChurchesForArea, lines 631-637
WindowShowChurches(areaName) ==
  /\ nShow < MaxShow
  /\ nShow' = nShow + 1
  /\ lastShow' = <<areaName>>
  /\ lastCall' = <<OverlayCall("show", <<areaName>>)>>
  /\ openPopup' = IF mapInstance THEN <<>> ELSE openPopup
  /\ showChurchesForArea(areaName)
  /\ UNCHANGED nClear
  /\ UNCHANGED <<colorVars, fetchVars, mapInstance, dataVars, filterVars,
                 geoJsonLayer, layerStyle, labelOnMap, popups, hover, mapView,
                 selectVars>>

\* the church button of the open popup, lines 380-400
PopupButton ==
  /\ openPopup # <<>>
  /\ openPopup[1].content.nChurches > 0
  /\ WindowShowChurches(openPopup[1].content.areaName)

\* a click on a church marker, lines 298-313: its popup replaces the open
\* one and the view is set to the church
MarkerClick ==
  \E m \in mapMarkers :
    /\ mapInstance
    /\ mapView' = <<"church", m.church>>
    /\ openPopup' = <<>>
    /\ UNCHANGED <<colorVars, fetchVars, mapInstance, dataVars, filterVars,
                   geoJsonLayer, layerStyle, labelOnMap, popups, hover,
                   selectVars, churchVars>>

Init == ColorIdle /\ FetchIdle /\ Mounted

Next ==
  \/ LoadOk
  \/ LoadFail
  \/ MapClick
  \/ ListClick
  \/ ResolveFetch
  \/ MouseOver
  \/ MouseOut
  \/ PopupButton
  \/ MarkerClick

Spec == Init /\ [][Next]_vars

(***************************************************************************)
(* The church overlay alone: window.showChurchesForArea called with any    *)
(* of these names.                                                         *)
(***************************************************************************)
CallNames ==
  {<<"A", "b">>, <<"A", "B">>, <<"a", "b">>, <<"B">>, <<"b">>, <<"A">>, Unknown}

CallShowChurches == \E areaName \in CallNames : WindowShowChurches(areaName)

InitChurch == ColorIdle /\ FetchIdle /\ Mounted

NextChurch == LoadOk \/ LoadFail \/ CallShowChurches \/ MarkerClick

SpecChurch == InitChurch /\ [][NextChurch]_vars

(***************************************************************************)
(* The component over the outcomes of loadGeoJSON: the file loads, the     *)
(* fetch or the parse fails, or the extraction of the records fails.       *)
(***************************************************************************)
InitLoad == ColorIdle /\ FetchIdle /\ Mounted

NextLoad ==
  \/ LoadOk
  \/ LoadFail
  \/ LoadExtractFail
  \/ MapClick
  \/ ListClick
  \/ ResolveFetch
  \/ MouseOver
  \/ MouseOut

SpecLoad == InitLoad /\ [][NextLoad]_vars

(***************************************************************************)
(* The second component of App.tsx (lines 760-1289), the variant without   *)
(* churches: loadGeoJSON lists every feature (lines 783-806) and the layer *)
(* effect renders every feature (lines 1183-1204), a Point as a marker.    *)
(* A marker has neither getBounds nor setStyle: calling them throws a      *)
(* TypeError that ends the handler.                                        *)
(***************************************************************************)
\* a dataset whose polygons all carry a NAME, and one Point
NamedDataset ==
  << Area("Polygon", << <<"B">> >>),
     Area("MultiPolygon", << <<"A", "b">> >>),
     Church(<< <<"B">> >>) >>

SimpleDatasets == {Dataset, NamedDataset}

\* lines 791-796: the names of all features, sorted
SimpleAreaList(data) ==
  SortNames([k \in 1..Len(data) |-> AreaNameOf(data[k])])

\* the layer L.geoJSON builds for a Point
MarkerLayer == [weight |-> 0, color |-> "marker", fillOpacity |-> "marker"]

\* the layers the loop of lines 1032-1073 reaches before setStyle throws on
\* the first marker
ReachedByLoop ==
  {i \in LayerIds : \A j \in LayerIds : j <= i => IsPolygon(Features[j])}

SimpleRestyled(areaName) ==
  [i \in LayerIds |->
     IF i \notin ReachedByLoop THEN layerStyle[i]
     ELSE IF NameIs(Features[i], areaName) THEN Emphasized ELSE DefaultStyle]

SimpleRelabelled(areaName) ==
  IF ~mapInstance THEN labelOnMap
  ELSE (labelOnMap \ {LabelOf(i) : i \in ReachedByLoop})
         \cup {LabelOf(i) : i \in {j \in ReachedByLoop :
                 NameIs(Features[j], areaName) /\ HasLabel(Features[j])}}

\* the effect of lines 1183-1204: as UpdateMapLayer, over every feature
SimpleUpdateMapLayer(data, sel, labels, popupNow) ==
  IF mapInstance /\ data # <<>>
  THEN /\ labelOnMap' = labels \ {LabelOf(i) : i \in LayerIds}
       /\ geoJsonLayer' = << [gen |-> CurGen + 1, sel |-> sel] >>
       /\ layerStyle' =
            [i \in 1..Len(data[1]) |->
               IF IsPolygon(data[1][i]) THEN style(data[1][i], sel)
               ELSE MarkerLayer]
       /\ openPopup' = IF popupNow # <<>> /\ popupNow[1].gen = CurGen
                       THEN <<>> ELSE popupNow
       /\ hover' = <<>>
  ELSE /\ labelOnMap' = labels
       /\ openPopup' = popupNow
       /\ UNCHANGED <<geoJsonLayer, layerStyle, hover>>

\* loadGeoJSON, lines 783-806, for the file /cw.json holding data
SimpleLoadOk ==
  \E data \in SimpleDatasets :
    /\ loadPc = "loading"
    /\ loadPc' = "done"
    /\ curacaoGeoJSON' = <<data>>
    /\ areas' = SimpleAreaList(data)
    /\ filteredAreas' = SearchEffect(areas', searchTerm)
    /\ SimpleUpdateMapLayer(curacaoGeoJSON', selectedArea, labelOnMap, openPopup)
    /\ UNCHANGED <<colorVars, fetchVars, mapInstance, churchesData, searchTerm,
                   popups, mapView, selectVars, churchVars>>

\* selectArea, lines 1011-1075
SimpleSelectArea(areaName, layer, popupNow) ==
  LET withLayer == layer # <<>> /\ mapInstance
      onPath == withLayer /\ IsPolygon(Features[layer[1]])
      styleNow == IF withLayer THEN layerStyle ELSE SimpleRestyled(areaName)
      labelsNow == IF withLayer THEN labelOnMap ELSE SimpleRelabelled(areaName)
  IN  /\ nSelect < MaxSelect
      /\ nSelect' = nSelect + 1
      /\ selectedArea' = <<areaName>>
      /\ lastSelects' =
           (IF lastSelects = <<>> THEN <<>>
            ELSE <<lastSelects[Len(lastSelects)]>>)
             \o << [arg |-> areaName, layer |-> layer] >>
      /\ mapView' = IF onPath THEN <<"bounds", layer[1]>> ELSE mapView
      /\ pending' =
           IF onPath
           THEN pending \cup
                  {[id |-> nSelect + 1, arg |-> areaName, feat |-> layer[1],
                    gen |-> CurGen]}
           ELSE pending
      /\ IF selectedArea # <<areaName>>
         THEN SimpleUpdateMapLayer(curacaoGeoJSON, <<areaName>>, labelsNow,
                                   popupNow)
         ELSE /\ labelOnMap' = labelsNow
              /\ layerStyle' = styleNow
              /\ openPopup' = popupNow
              /\ UNCHANGED <<geoJsonLayer, hover>>
      /\ UNCHANGED <<colorVars, fetchVars, mapInstance, dataVars, filterVars,
                     popups, churchVars>>

\* zoomToFeature, lines 1078-1086
SimpleMapClick ==
  \E i \in LayerIds :
    SimpleSelectArea(AreaNameOf(Features[i]), <<i>>,
                     IF BoundPopup(i, CurGen) = {} THEN <<>>
                     ELSE << CHOOSE q \in BoundPopup(i, CurGen) : TRUE >>)

\* the onClick of an entry of the area list, lines 1244-1247
SimpleListClick ==
  \E k \in 1..Len(filteredAreas) :
    SimpleSelectArea(filteredAreas[k], findAreaLayer(filteredAreas[k]),
                     openPopup)

\* the rest of selectArea when its info fetch resolves, lines 1021-1075
SimpleResolveFetch ==
  \E p \in pending, script \in Scripts :
    LET areaName == AreaNameOf(Features[p.feat])
        popup == [feat |-> p.feat, gen |-> p.gen, id |-> p.id,
                  onMap |-> p.gen = CurGen,
                  content |->
                    PopupContent(areaName,
                      RunFetch(areaName, FetchStart(areaName), script).result[1])]
    IN  /\ pending' = pending \ {p}
        /\ popups' = (popups \ BoundPopup(p.feat, p.gen)) \cup {popup}
        /\ openPopup' = IF p.gen = CurGen THEN <<popup>> ELSE openPopup
        /\ layerStyle' = SimpleRestyled(p.arg)
        /\ labelOnMap' = SimpleRelabelled(p.arg)
        /\ UNCHANGED <<colorVars, fetchVars, mapInstance, dataVars, filterVars,
                       geoJsonLayer, hover, mapView, selectedArea, nSelect,
                       lastSelects, churchVars>>

InitSimple == ColorIdle /\ FetchIdle /\ Mounted

NextSimple ==
  \/ SimpleLoadOk
  \/ LoadFail
  \/ SimpleMapClick
  \/ SimpleListClick
  \/ SimpleResolveFetch

SpecSimple == InitSimple /\ [][NextSimple]_vars

(***************************************************************************)
(* The two operations of the overlay called in any order: showChurches-    *)
(* ForArea through the window function, clearChurchMarkers directly.       *)
(***************************************************************************)
CallClearChurchMarkers ==
  /\ nClear < MaxClear
  /\ nClear' = nClear + 1
  /\ lastCall' = <<OverlayCall("clear", <<>>)>>
  /\ clearChurchMarkers
  /\ UNCHANGED <<colorVars, fetchVars, mapInstance, dataVars, filterVars,
                 leafletVars, selectVars, nShow, lastShow>>

InitOverlay == ColorIdle /\ FetchIdle /\ Mounted

NextOverlay ==
  \/ LoadOk
  \/ LoadFail
  \/ CallShowChurches
  \/ CallClearChurchMarkers
  \/ MarkerClick

SpecOverlay == InitOverlay /\ [][NextOverlay]_vars

(***************************************************************************)
(* The search box alone: loading and typing.                               *)
(***************************************************************************)
InitFilter == ColorIdle /\ FetchIdle /\ Mounted

NextFilter == LoadOk \/ LoadFail \/ TypeChar \/ DeleteChar

SpecFilter == InitFilter /\ [][NextFilter]_vars


(***************************************************************************)
(* getAreaColor on its own: the loop consumes one code unit per step.      *)
(***************************************************************************)
Names2 == UNION {[1..n -> CharCodes] : n \in 0..MaxName2Len}

InitColor ==
  /\ cname = <<>>
  /\ chash = Zero
  /\ cname2 \in Names2
  /\ FetchIdle
  /\ Mounted

ColorStep ==
  \E c \in CharCodes :
    /\ Len(cname) < MaxNameLen
    /\ cname' = Append(cname, c)
    /\ chash' = HashStep(chash, c)
    /\ UNCHANGED <<cname2, fetchVars, mapInstance, dataVars, filterVars,
                   leafletVars, selectVars, churchVars>>

NextColor == ColorStep

SpecColor == InitColor /\ [][NextColor]_vars

(***************************************************************************)
(* fetchAreaInfo on its own: one call, the network answering each request. *)
(***************************************************************************)
InitFetch ==
  /\ ColorIdle
  /\ fname \in FetchNames
  /\ fpc = "idle"
  /\ flog = <<>>
  /\ fseen = <<>>
  /\ fresult = <<>>
  /\ Mounted

FetchCall ==
  /\ fpc = "idle"
  /\ fpc' = FetchStart(fname).pc
  /\ flog' = FetchStart(fname).log
  /\ fresult' = FetchStart(fname).result
  /\ UNCHANGED <<colorVars, fname, fseen, mapInstance, dataVars, filterVars,
                 leafletVars, selectVars, churchVars>>

FetchRespond ==
  \E resp \in ResponsesAt(fpc) :
    LET st == FetchOnResponse(fname, Running(fpc, flog), resp)
    IN  /\ fpc' = st.pc
        /\ flog' = st.log
        /\ fresult' = st.result
        /\ fseen' = Append(fseen, resp)
        /\ UNCHANGED <<colorVars, fname, mapInstance, dataVars, filterVars,
                       leafletVars, selectVars, churchVars>>

NextFetch == FetchCall \/ FetchRespond

SpecFetch == InitFetch /\ [][NextFetch]_vars

(***************************************************************************)
(* Properties of fetchAreaInfo                                             *)
(***************************************************************************)
IsFailed(resp) == resp.kind # "ok"

IsSearchData(resp) == resp.kind = "ok" /\ "titles" \in DOMAIN resp

ZeroResults(resp) == IsSearchData(resp) /\ resp.titles = <<>>

HasResults(resp) == IsSearchData(resp) /\ resp.titles # <<>>

NumSearches == Cardinality({i \in 1..Len(flog) : flog[i].kind = "search"})

NumSummaries == Cardinality({i \in 1..Len(flog) : flog[i].kind = "summary"})

\* C4: fetchAreaInfo never raises; a failed request or a failed parse at any
\* step is the last thing that happens: no request follows it and the call
\* returns the "Information not available." default for areaName.
C4_NeverRaises ==
  /\ fpc # "threw"
  /\ \A i \in 1..Len(fseen) :
       IsFailed(fseen[i]) =>
         /\ i = Len(fseen)
         /\ Len(flog) = i
         /\ fpc = "done"
         /\ fresult = <<Failure(fname)>>

\* the summary request failed after a fallback search that found a page
C4_Witness ==
  /\ Len(fseen) = 3
  /\ IsFailed(fseen[3])
  /\ fresult = <<Failure(fname)>>

FirstIsCuracaoSearch ==
  Len(flog) >= 1 => flog[1] = SearchReq(fname \o SpaceCuracao)

SecondSearchIffZero ==
  (Len(fseen) >= 1 /\ ZeroResults(fseen[1]))
    <=> (Len(flog) >= 2 /\ flog[2] = SearchReq(fname))

SummaryAfterSearches ==
  /\ NumSummaries <= 1
  /\ NumSearches <= 2
  /\ \A i \in 1..Len(flog) : flog[i].kind = "summary" => i = NumSearches + 1

\* C5 as claimed: the order of the requests, for every area name and every
\* response: 1 or 2 searches, then a summary exactly when the last search
\* made returned a result.
C5_Original ==
  /\ FirstIsCuracaoSearch
  /\ SecondSearchIffZero
  /\ SummaryAfterSearches
  /\ fpc # "idle" => NumSearches \in {1, 2}
  /\ (NumSearches >= 1 /\ Len(fseen) >= NumSearches
        /\ HasResults(fseen[NumSearches]))
       <=> NumSummaries = 1
  /\ NumSummaries = 1 =>
       flog[NumSearches + 1] = SummaryReq(fseen[NumSearches].titles[1])

\* C5 amended: the same order whenever encodeURIComponent accepts the text
\* it is given; a name it rejects makes the call issue no request at all,
\* and a first title it rejects makes the call issue no summary request.
C5_RequestOrder ==
  /\ EncodeThrows(fname) =>
       (fpc # "idle" => flog = <<>> /\ fresult = <<Failure(fname)>>)
  /\ ~EncodeThrows(fname) =>
       /\ FirstIsCuracaoSearch
       /\ SecondSearchIffZero
       /\ SummaryAfterSearches
       /\ fpc # "idle" => NumSearches \in {1, 2}
       /\ (NumSearches >= 1 /\ Len(fseen) >= NumSearches
             /\ HasResults(fseen[NumSearches])
             /\ ~EncodeThrows(fseen[NumSearches].titles[1]))
            <=> NumSummaries = 1
       /\ NumSummaries = 1 =>
            flog[NumSearches + 1] = SummaryReq(fseen[NumSearches].titles[1])

\* two searches, the second one found a page, its summary was fetched
C5_Witness ==
  /\ fpc = "done"
  /\ NumSearches = 2
  /\ NumSummaries = 1
  /\ Len(fseen) = 3
  /\ ~IsFailed(fseen[3])

\* C6: when both searches succeed with zero results the call returns the
\* "No Wikipedia information available for this area." default for areaName.
C6_NoResults ==
  (Len(fseen) >= 2 /\ ZeroResults(fseen[1]) /\ ZeroResults(fseen[2])) =>
    /\ fpc = "done"
    /\ Len(flog) = 2
    /\ fresult = <<NoInfo(fname)>>

C6_Witness ==
  /\ Len(fseen) = 2
  /\ ZeroResults(fseen[1])
  /\ ZeroResults(fseen[2])
  /\ fresult = <<NoInfo(fname)>>

(***************************************************************************)
(* Properties of getAreaColor                                              *)
(***************************************************************************)
\* C7: for every name the index abs(hash) mod 30 is in 0..29 and the colour
\* is one of the palette; the colour of a name is the one the loop ends on.
C7_ColorTotal ==
  /\ ColorIndex(chash) \in 0..(Len(colors) - 1)
  /\ ColorAt(ColorIndex(chash)) \in Range(colors)
  /\ getAreaColor(cname) = ColorAt(ColorIndex(chash))

\* a name whose hash has left the signed 32-bit range
C7_Witness == ~InInt32(chash) /\ chash = HashOf(cname)

\* C8 as claimed: two different names never get the same colour.
C8_UniqueColors ==
  cname # cname2 => getAreaColor(cname) # getAreaColor(cname2)

(***************************************************************************)
(* Properties of the search filter                                         *)
(***************************************************************************)
SameLetter(c, d) ==
  \/ c = d
  \/ \E i \in 1..Len(LowerLetters) :
       {c, d} = {LowerLetters[i], UpperLetters[i]}

ContainsIgnoringCase(name, q) ==
  \E off \in 0..Len(name) :
    /\ off + Len(q) <= Len(name)
    /\ \A j \in 1..Len(q) : SameLetter(name[off + j], q[j])

OnlyWhitespace(q) == \A i \in 1..Len(q) : q[i] = " "

KeptBy(q, list) ==
  IF OnlyWhitespace(q) THEN list
  ELSE SelectSeq(list, LAMBDA name : ContainsIgnoringCase(name, q))

\* C9: filteredAreas is the whole area list for an empty or blank query, and
\* otherwise the areas whose name contains the query ignoring case, in the
\* order of the area list.
C9_Filter == filteredAreas = KeptBy(searchTerm, areas)

\* an upper-case query that keeps some areas and drops others
C9_Witness ==
  /\ loadPc = "done"
  /\ \E i \in 1..Len(searchTerm) : LetterIn(searchTerm[i], UpperLetters)
  /\ filteredAreas # <<>>
  /\ filteredAreas # areas


(***************************************************************************)
(* Properties of the selection state machine                               *)
(***************************************************************************)
SelectedWithLayer(call, i) ==
  call = [arg |-> AreaNameOf(Features[i]), layer |-> <<i>>]

\* C1 as claimed: after area A and then area B were selected with their
\* layers, once no info fetch is pending (and the pointer is over no
\* feature), B's feature alone is emphasized, its label is shown, and A's
\* feature has the default style.  Stated for features that carry a NAME.
C1_LastSelectionWins ==
  \A a, b \in LayerIds :
    ( /\ Len(lastSelects) = 2
      /\ SelectedWithLayer(lastSelects[1], a)
      /\ SelectedWithLayer(lastSelects[2], b)
      /\ HasLabel(Features[a])
      /\ HasLabel(Features[b])
      /\ AreaNameOf(Features[a]) # AreaNameOf(Features[b])
      /\ pending = {}
      /\ hover = <<>> )
    => /\ layerStyle[b] = Emphasized
       /\ LabelOf(b) \in labelOnMap
       /\ layerStyle[a] = DefaultStyle
       /\ \A i \in LayerIds \ {b} : layerStyle[i] # Emphasized

\* the features shown emphasized that the pointer is not over
EmphasizedUnhovered ==
  {i \in LayerIds : layerStyle[i] = Emphasized /\ hover # <<i>>}

\* C2 as claimed: in every state at most one feature that the pointer is not
\* over is emphasized, and it is the feature named by selectedArea.
C2_OneSelected ==
  /\ Cardinality(EmphasizedUnhovered) <= 1
  /\ \A i \in EmphasizedUnhovered :
       selectedArea = <<AreaNameOf(Features[i])>>

\* C3 as claimed: every popup that a resolved info fetch bound was bound to
\* a layer of the group rendered at that moment (and so was opened).
C3_PopupOnRenderedLayer == \A q \in popups : q.onMap

(***************************************************************************)
(* Properties of the church overlay                                        *)
(***************************************************************************)
SameIgnoringCase(a, b) ==
  /\ Len(a) = Len(b)
  /\ \A i \in 1..Len(a) : SameLetter(a[i], b[i])

ChurchIdsOf(list, areaName) ==
  {list[k].id : k \in {j \in 1..Len(list) :
                         SameIgnoringCase(list[j].area, areaName)}}

\* C10: a call of showChurchesForArea leaves on the map, and in the tracking
\* list, exactly one marker for each church record whose area is the
\* argument up to letter case, all of them created by this call.
C10_ShownChurches ==
  [][nShow' # nShow =>
       /\ mapMarkers' = Range(churchMarkers')
       /\ {m.church : m \in mapMarkers'} = ChurchIdsOf(churchesData, lastShow'[1])
       /\ Len(churchMarkers') = Cardinality(ChurchIdsOf(churchesData, lastShow'[1]))
       /\ \A m \in mapMarkers' : m.call = nShow']_vars

\* a later call whose argument differs in case from the area of a church
\* it shows
C10_Witness ==
  /\ nShow >= 2
  /\ \E k \in 1..Len(churchesData) :
       /\ churchesData[k].area # lastShow[1]
       /\ [church |-> churchesData[k].id, call |-> nShow] \in mapMarkers

ChurchesOn(markers) == {m.church : m \in markers}

ChurchSeq(tracked) == [k \in 1..Len(tracked) |-> tracked[k].church]

NoDuplicates(tracked) ==
  \A j, k \in 1..Len(tracked) : tracked[j].church = tracked[k].church => j = k

\* C11: a call of clearChurchMarkers leaves no marker on the map and an
\* empty tracking list, and changes nothing when it follows another call of
\* clearChurchMarkers (or when nothing is shown); a call of
\* showChurchesForArea(a) that follows a call of showChurchesForArea(a) on
\* the same church data leaves markers for the same churches, tracked in the
\* same order, each church once.
C11_Idempotent ==
  [][/\ nClear' # nClear =>
          /\ churchMarkers' = <<>>
          /\ mapMarkers' = {}
          /\ (lastCall # <<>> /\ lastCall[1].op = "clear") =>
                UNCHANGED <<churchMarkers, mapMarkers>>
          /\ (churchMarkers = <<>> /\ mapMarkers = {}) =>
                UNCHANGED <<churchMarkers, mapMarkers>>
     /\ (nShow' # nShow /\ lastCall = lastCall') =>
          /\ ChurchesOn(mapMarkers') = ChurchesOn(mapMarkers)
          /\ ChurchSeq(churchMarkers') = ChurchSeq(churchMarkers)
          /\ Range(churchMarkers') = mapMarkers'
          /\ Cardinality(mapMarkers') = Cardinality(ChurchesOn(mapMarkers'))
          /\ NoDuplicates(churchMarkers')]_vars

\* showChurchesForArea was called twice in a row for an area with churches,
\* and clearChurchMarkers twice in a row after that
C11_Witness ==
  /\ nShow >= 2
  /\ nClear = 2
  /\ lastCall # <<>>
  /\ lastCall[1].op = "clear"
  /\ lastCall[1].data # <<>>
  /\ \E k \in 1..Len(churchesData) :
       ChurchMatches(churchesData[k], lastShow[1])

\* the area of the church a marker stands for
AreaOfMarker(m) ==
  churchesData[CHOOSE k \in 1..Len(churchesData) :
                 churchesData[k].id = m.church].area

\* C12 as claimed: every church marker on the map stands for a church of
\* the area that is selected, up to letter case.
C12_MarkersOfSelection ==
  \A m \in mapMarkers :
    /\ selectedArea # <<>>
    /\ SameIgnoringCase(AreaOfMarker(m), selectedArea[1])

\* the layers of the current group whose NAME is the name
LayersNamed(areaName) == {i \in LayerIds : NameIs(Features[i], areaName)}

LastSelect == lastSelects[Len(lastSelects)]

\* C13: a click on an entry of the area list whose name is the NAME of no
\* rendered layer changes neither the map view, nor the pending info
\* fetches, nor the bound popups, and sets the selection to that name, which
\* highlights the entry.
C13_SelectWithoutLayer ==
  [][(ListClick /\ LayersNamed(LastSelect'.arg) = {}) =>
       /\ UNCHANGED <<mapView, pending, popups>>
       /\ selectedArea' = <<LastSelect'.arg>>
       /\ IsListEntryHighlighted(LastSelect'.arg, selectedArea')]_vars

\* the entry 'Unknown' of the list was clicked: the polygon without a NAME
\* is listed under that name and no layer has it as NAME
C13_Witness ==
  /\ lastSelects # <<>>
  /\ LastSelect = [arg |-> Unknown, layer |-> <<>>]
  /\ selectedArea = <<Unknown>>
  /\ Unknown \in Range(areas)
  /\ pending = {}

(***************************************************************************)
(* Properties of the loaded data                                           *)
(***************************************************************************)
\* C15 as claimed: after loadGeoJSON has failed (in the fetch, the parse or
\* the extraction of the records) the area list and the filtered list are
\* empty, no polygon layer is rendered and nothing is selected.
C15_LoadFailure ==
  loadPc = "failed" =>
    /\ areas = <<>>
    /\ filteredAreas = <<>>
    /\ geoJsonLayer = <<>>
    /\ LayerIds = {}
    /\ selectedArea = <<>>

\* the place of a letter in the alphabet, whatever its case; 0 for the rest
AlphabetPlace(c) ==
  IF \E i \in 1..Len(LowerLetters) : c \in {LowerLetters[i], UpperLetters[i]}
  THEN CHOOSE i \in 1..Len(LowerLetters) :
         c \in {LowerLetters[i], UpperLetters[i]}
  ELSE 0

\* a comes strictly after b in the alphabetical order of the letters
ComesAfter(a, b) ==
  \/ \E k \in 1..Len(a) :
       /\ k <= Len(b)
       /\ \A j \in 1..(k - 1) : AlphabetPlace(a[j]) = AlphabetPlace(b[j])
       /\ AlphabetPlace(a[k]) > AlphabetPlace(b[k])
  \/ /\ Len(a) > Len(b)
     /\ \A j \in 1..Len(b) : AlphabetPlace(a[j]) = AlphabetPlace(b[j])

\* C16: once the file is loaded, the area list is in ascending alphabetical
\* order of name, and while the query is empty filteredAreas is the area
\* list, entry for entry.
C16_SortedList ==
  loadPc = "done" =>
    /\ \A i, j \in 1..Len(areas) : i < j => ~ComesAfter(areas[i], areas[j])
    /\ searchTerm = <<>> => filteredAreas = areas

\* the file lists B first, and the sort has moved it to the second place
C16_Witness ==
  /\ loadPc = "done"
  /\ searchTerm = <<>>
  /\ Len(areas) = 3
  /\ AreaNameOf(Features[1]) = areas[2]
  /\ filteredAreas = areas

\* the names of the Polygon and MultiPolygon features of the loaded file
PolygonNames ==
  {AreaNameOf(Features[i]) : i \in {j \in 1..Len(Features) :
                                       IsPolygon(Features[j])}}

\* C14 as claimed: once the file is loaded, the names of the area list are
\* the names of the polygon features of the file, and the selection, when
\* set, is one of them.
C14_AreaNames ==
  loadPc = "done" =>
    /\ Range(areas) = PolygonNames
    /\ selectedArea # <<>> => selectedArea[1] \in PolygonNames

(***************************************************************************)
(* Properties of the styles and the labels                                 *)
(***************************************************************************)
\* the suspended selectArea calls that the step resumes
Resumed == {p \in pending : p \notin pending'}

LabelShown(i, labels) == [feat |-> i, gen |-> CurGen] \in labels

\* C17 as claimed: when the loop at the end of selectArea(N) has run, every
\* rendered feature whose area name (NAME, or 'Unknown' without NAME) is N
\* is emphasized, with its label on the map if it has one, and every other
\* feature has the default style and no label on the map.
C17_Rederived ==
  [][\A p \in Resumed :
       \A i \in DOMAIN layerStyle' :
         IF AreaNameOf(Features[i]) = p.arg
         THEN /\ layerStyle'[i] = Emphasized
              /\ HasLabel(Features[i]) => LabelShown(i, labelOnMap')
         ELSE /\ layerStyle'[i] = DefaultStyle
              /\ ~LabelShown(i, labelOnMap')]_vars

\* the step is a mouseout of the layer the pointer was over
PointerLeaves(i) == hover = <<i>> /\ hover' = <<>> /\ UNCHANGED geoJsonLayer

\* C18: when the pointer leaves a feature that is not the selected one, its
\* style is the default one (weight 1, white stroke, fill opacity 0.7) and
\* its label is off the map; when it leaves the selected feature, its style
\* is the emphasized one (weight 3, fill opacity 0.9) and its label stays on
\* the map.
C18_PointerLeave ==
  [][\A i \in LayerIds :
       PointerLeaves(i) =>
         IF selectedArea = <<AreaNameOf(Features[i])>>
         THEN /\ layerStyle'[i].weight = 3
              /\ layerStyle'[i].fillOpacity = "0.9"
              /\ LabelShown(i, labelOnMap) => LabelShown(i, labelOnMap')
         ELSE /\ layerStyle'[i].weight = 1
              /\ layerStyle'[i].color = "#ffffff"
              /\ layerStyle'[i].fillOpacity = "0.7"
              /\ ~LabelShown(i, labelOnMap')]_vars

\* the pointer has entered and left the selected feature Ab before any info
\* fetch resolved: only the hover can have put its label on the map
C18_Witness ==
  /\ loadPc = "done"
  /\ hover = <<>>
  /\ popups = {}
  /\ selectedArea = <<AreaNameOf(Features[2])>>
  /\ LabelShown(2, labelOnMap)
  /\ layerStyle[2] = Emphasized
  /\ layerStyle[1] = DefaultStyle

\* the step is a mouseover of the layer of feature i
PointerEnters(i) == hover = <<>> /\ hover' = <<i>>

\* C19: when the pointer enters a feature, that feature gets the emphasized
\* style and its label (a feature with a NAME has one) is put on the map;
\* the style and the label of every other feature, the selection, the
\* bound popups and the church markers are as before.
C19_PointerEnter ==
  [][\A i \in LayerIds :
       PointerEnters(i) =>
         /\ layerStyle'[i].weight = 3
         /\ layerStyle'[i].color = "#1d4ed8"
         /\ layerStyle'[i].fillOpacity = "0.9"
         /\ HasLabel(Features[i]) => LabelShown(i, labelOnMap')
         /\ DOMAIN layerStyle' = DOMAIN layerStyle
         /\ \A j \in LayerIds \ {i} :
              /\ layerStyle'[j] = layerStyle[j]
              /\ LabelShown(j, labelOnMap') = LabelShown(j, labelOnMap)
         /\ labelOnMap' \ {LabelOf(i)} = labelOnMap \ {LabelOf(i)}
         /\ UNCHANGED <<selectedArea, popups, openPopup, churchMarkers,
                        mapMarkers>>]_vars

\* the pointer is over B while Ab is selected and shown emphasized with its
\* label, a popup is bound, and the third feature has the default style
C19_Witness ==
  /\ loadPc = "done"
  /\ hover = <<1>>
  /\ layerStyle[1] = Emphasized
  /\ LabelShown(1, labelOnMap)
  /\ selectedArea = <<AreaNameOf(Features[2])>>
  /\ layerStyle[2] = Emphasized
  /\ LabelShown(2, labelOnMap)
  /\ layerStyle[3] = DefaultStyle
  /\ popups # {}

(***************************************************************************)
(* Properties of the info fetches in flight                                *)
(***************************************************************************)
\* the popup that the continuation of the suspended call p has bound
PopupOf(p, bound) == {q \in bound : q.id = p.id /\ q.feat = p.feat /\ q.gen = p.gen}

Reselects == nSelect' # nSelect /\ selectedArea = selectedArea'
               /\ LastSelect'.layer # <<>>

\* the latest selectArea call was made for the area that was selected
LatestIsReselection ==
  /\ Len(lastSelects) = 2
  /\ lastSelects[1].arg = lastSelects[2].arg
  /\ lastSelects[2].layer # <<>>

\* what fetchAreaInfo can return for the area
InfoResults(areaName) ==
  {RunFetch(areaName, FetchStart(areaName), script).result[1] :
     script \in Scripts}

\* C21: a selectArea call, with a layer, for the area that is already
\* selected issues a new info fetch and changes neither the selection, nor
\* the rendered layer group, nor the bound popups; when its fetch resolves
\* (no other selection was made meanwhile) the popup bound to the layer is
\* the one of this call, holding the result of this fetch, it replaces the
\* popup bound before, and it is open on the layer, which is rendered.
C21_Reselect ==
  [][/\ Reselects =>
          /\ \E p \in pending' \ pending :
               /\ p.id = nSelect'
               /\ p.arg = selectedArea[1]
               /\ p.feat = LastSelect'.layer[1]
               /\ p.gen = CurGen
          /\ UNCHANGED <<geoJsonLayer, popups>>
     /\ \A p \in Resumed :
          (p.id = nSelect /\ LatestIsReselection) =>
            /\ p.gen = CurGen
            /\ \E q \in popups' :
                 /\ {r \in popups' : r.feat = p.feat /\ r.gen = p.gen} = {q}
                 /\ q.id = p.id
                 /\ q.content.info \in InfoResults(AreaNameOf(Features[p.feat]))
                 /\ openPopup' = <<q>>
            /\ selectedArea' = selectedArea
            /\ selectedArea = <<p.arg>>]_vars

\* B was clicked three times: the popup of the first click is bound to the
\* layer that the selection replaced; the popup of the third click holds
\* another result than that one, and is open on the rendered layer
C21_Witness ==
  /\ loadPc = "done"
  /\ nSelect = 3
  /\ pending = {}
  /\ selectedArea = <<AreaNameOf(Features[1])>>
  /\ \E q \in popups, old \in popups :
       /\ q.id = 3 /\ q.feat = 1 /\ q.gen = CurGen /\ q.onMap
       /\ openPopup = <<q>>
       /\ old.id = 1 /\ old.feat = 1
       /\ old.content.info # q.content.info
  /\ \A r \in popups : r.id # 2

\* C22: every label on the map is the label of a layer of the current
\* polygon group: the rebuild of the group takes the labels of the group it
\* replaces off the map, and hovers, selections and resolved info fetches
\* put only labels of the current group on the map.
C22_LabelsOfCurrentLayer ==
  \A l \in labelOnMap :
    /\ geoJsonLayer # <<>>
    /\ l.gen = geoJsonLayer[1].gen
    /\ l.feat \in DOMAIN layerStyle
    /\ HasLabel(Features[l.feat])

\* B was clicked and its fetch resolved, which put B's label on the map;
\* then Ab was clicked, which replaced the group, and the pointer is over
\* Ab: the only label on the map is the one of Ab's new layer
C22_Witness ==
  /\ loadPc = "done"
  /\ CurGen = 3
  /\ \E q \in popups : q.id = 1 /\ q.feat = 1
  /\ \E p \in pending : p.id = 2 /\ p.feat = 2
  /\ hover = <<2>>
  /\ layerStyle[1] = DefaultStyle
  /\ labelOnMap = {[feat |-> 2, gen |-> 3]}


====
